---------------------------- MODULE Spec2Model ----------------------------
(***************************************************************************)
(* A model of blueskysight/utils.py: the LEB128 varint decoder, the CBOR   *)
(* head decoder, the DAG-CBOR object decoder, the CAR container parser and *)
(* the Merkle Search Tree enumerator.                                      *)
(*                                                                         *)
(* A byte is an integer in 0..255 and a buffer a sequence of bytes.  A     *)
(* stream (io.BytesIO) is a buffer and a cursor pos, 0 <= pos <= Len(buf). *)
(* The decoders are pure functions of (buffer, cursor): each is an         *)
(* operator returning either [ok |-> TRUE, ..., pos |-> cursor after] or   *)
(* [ok |-> FALSE, err |-> the exception raised].                           *)
(*                                                                         *)
(* Python objects are tagged records:                                      *)
(*   int    [t |-> "int",   v |-> i]                                       *)
(*   bool   [t |-> "bool",  v |-> TRUE/FALSE]                              *)
(*   None   [t |-> "none"]                                                 *)
(*   float  [t |-> "float", fmt |-> "e"/"f"/"d", raw |-> the IEEE bytes]   *)
(*   bytes  [t |-> "bytes", v |-> bytes]                                   *)
(*   str    [t |-> "str",   v |-> the UTF-8 bytes of the string]           *)
(*   list   [t |-> "list",  v |-> sequence of objects]                     *)
(*   dict   [t |-> "dict",  v |-> function from str keys (their UTF-8      *)
(*                                bytes) to objects]                       *)
(***************************************************************************)
EXTENDS Integers, Sequences, FiniteSets, TLC

VARIABLES
    stream,   \* the bytes of the io.BytesIO the decoder is given
    length,   \* parse_car's second argument
    pc,       \* which operation has run ("start" before any)
    out,      \* what the operation returned or raised
    nodes,    \* enumerate_mst_records: the block mapping
    node,     \* enumerate_mst_records: the node the outermost call is given
    stack,    \* enumerate_mst_records: the activations, innermost last
    last      \* enumerate_mst_records: the entry processed by the last step

vars == <<stream, length, pc, out, nodes, node, stack, last>>

Err(e) == [ok |-> FALSE, err |-> e]

NoOut == [ok |-> FALSE, err |-> "not run"]

Min(a, b) == IF a < b THEN a ELSE b

Max(a, b) == IF a > b THEN a ELSE b

(***************************************************************************)
(* stream.read(n) at cursor pos: the next n bytes, or all that remain when *)
(* fewer remain or when n is negative.                                     *)
(***************************************************************************)
ReadBytes(buf, pos, n) ==
    IF n < 0 THEN SubSeq(buf, pos + 1, Len(buf))
    ELSE SubSeq(buf, pos + 1, Min(pos + n, Len(buf)))

\* int.from_bytes(b, "big")
RECURSIVE FromBytesBig(_)
FromBytesBig(b) ==
    IF Len(b) = 0 THEN 0
    ELSE 256 * FromBytesBig(SubSeq(b, 1, Len(b) - 1)) + b[Len(b)]

\* b.startswith(p)
StartsWith(b, p) == Len(b) >= Len(p) /\ SubSeq(b, 1, Len(p)) = p

\* b.endswith(s)
EndsWith(b, s) == Len(b) >= Len(s) /\ SubSeq(b, Len(b) - Len(s) + 1, Len(b)) = s

(***************************************************************************)
(* Python integers are unbounded.  The varint decoder's accumulator n is   *)
(* kept as its binary digits, least significant first, with no leading     *)
(* zero digit (so 0 is << >> and Len is int.bit_length()).                 *)
(***************************************************************************)
RECURSIVE Trim(_)
Trim(b) ==
    IF Len(b) = 0 THEN b
    ELSE IF b[Len(b)] = 0 THEN Trim(SubSeq(b, 1, Len(b) - 1)) ELSE b

\* val & 0x7F, as bits
Low7(val) == Trim([i \in 1..7 |-> (val \div (2 ^ (i - 1))) % 2])

\* b << s
ShiftLeft(b, s) ==
    IF Len(b) = 0 THEN b
    ELSE [i \in 1..(s + Len(b)) |-> IF i <= s THEN 0 ELSE b[i - s]]

\* a | b
BitOr(a, b) ==
    Trim([i \in 1..Max(Len(a), Len(b)) |->
            IF (i <= Len(a) /\ a[i] = 1) \/ (i <= Len(b) /\ b[i] = 1)
            THEN 1 ELSE 0])

\* The step between two bytes of a varint: shift += 7.
ShiftStep == 7

\* A mutant of VarintContinues: the continuation bit is taken to be 0x40.
VarintContinuesMutant(val) == (val \div 64) % 2 = 1

\* val & 0x80
VarintContinues(val) == val >= 128

(***************************************************************************)
(* parse_varint: the loop from the state (n, shift) at cursor pos.         *)
(***************************************************************************)
RECURSIVE ParseVarintLoop(_, _, _, _)
ParseVarintLoop(buf, pos, n, shift) ==
    IF pos >= Len(buf) THEN Err("IndexError")
    ELSE LET val == buf[pos + 1]
             n2  == BitOr(n, ShiftLeft(Low7(val), shift))
         IN  IF ~VarintContinues(val)
             THEN [ok |-> TRUE, n |-> n2, pos |-> pos + 1]
             ELSE ParseVarintLoop(buf, pos + 1, n2, shift + ShiftStep)

ParseVarint(buf, pos) == ParseVarintLoop(buf, pos, << >>, 0)


(***************************************************************************)
(* class MajorType                                                         *)
(***************************************************************************)
UNSIGNED_INT == 0
NEGATIVE_INT == 1
BYTE_STRING == 2
TEXT_STRING == 3
ARRAY == 4
MAP == 5
TAG == 6
FLOAT == 7

PyInt(i) == [t |-> "int", v |-> i]
PyBool(b) == [t |-> "bool", v |-> b]
PyNone == [t |-> "none"]
PyFloat(fmt, raw) == [t |-> "float", fmt |-> fmt, raw |-> raw]
PyBytes(b) == [t |-> "bytes", v |-> b]
PyStr(b) == [t |-> "str", v |-> b]
PyList(s) == [t |-> "list", v |-> s]
PyDict(f) == [t |-> "dict", v |-> f]

\* BYTE_LENGTHS = {24: 1, 25: 2, 26: 4, 27: 8}
ByteLengths(additional_info) == 2 ^ (additional_info - 24)

(***************************************************************************)
(* parse_cbor_head at cursor pos.  req and got record the bytes asked of   *)
(* stream.read after the first byte and the bytes it gave back.            *)
(***************************************************************************)
ParseCborHead(buf, pos) ==
    IF pos >= Len(buf) THEN Err("IndexError")
    ELSE
    LET first == buf[pos + 1]
        major_type == first \div 32
        additional_info == first % 32
        MkHead(val, newpos, req, got) ==
            [ok |-> TRUE, mt |-> major_type, val |-> val, pos |-> newpos,
             req |-> req, got |-> got]
    IN
    IF additional_info < 24 THEN
        IF major_type = FLOAT THEN
            CASE additional_info = 20 -> MkHead(PyBool(FALSE), pos + 1, 0, 0)
              [] additional_info = 21 -> MkHead(PyBool(TRUE), pos + 1, 0, 0)
              [] additional_info = 22 -> MkHead(PyNone, pos + 1, 0, 0)
              [] OTHER -> Err("KeyError")
        ELSE MkHead(PyInt(additional_info), pos + 1, 0, 0)
    ELSE IF additional_info \in 24..27 THEN
        LET req == ByteLengths(additional_info)
            byte_value == ReadBytes(buf, pos + 1, req)
            got == Len(byte_value)
            newpos == pos + 1 + got
        IN
        IF major_type = NEGATIVE_INT
        THEN MkHead(PyInt(-1 - FromBytesBig(byte_value)), newpos, req, got)
        ELSE IF major_type = FLOAT THEN
            CASE got = 1 -> Err("Exception: invalid")
              [] got = 2 -> MkHead(PyFloat("e", byte_value), newpos, req, got)
              [] got = 4 -> MkHead(PyFloat("f", byte_value), newpos, req, got)
              [] got = 8 -> MkHead(PyFloat("d", byte_value), newpos, req, got)
              [] OTHER -> Err("Exception: unreachable")
        ELSE MkHead(PyInt(FromBytesBig(byte_value)), newpos, req, got)
    ELSE IF additional_info = 31
    THEN Err("Exception: indefinite lengths not supported by this implementation")
    ELSE Err("Exception: not well-formed")

(***************************************************************************)
(* bytes.decode(): whether b is well-formed UTF-8 from index i on.         *)
(***************************************************************************)
IsCont(b, i) == i <= Len(b) /\ b[i] \in 128..191

RECURSIVE Utf8ValidFrom(_, _)
Utf8ValidFrom(b, i) ==
    IF i > Len(b) THEN TRUE
    ELSE LET c == b[i] IN
         CASE c < 128 -> Utf8ValidFrom(b, i + 1)
           [] c \in 194..223 -> IsCont(b, i + 1) /\ Utf8ValidFrom(b, i + 2)
           [] c \in 224..239 ->
                /\ IsCont(b, i + 1) /\ IsCont(b, i + 2)
                /\ (c = 224 => b[i + 1] >= 160)
                /\ (c = 237 => b[i + 1] <= 159)
                /\ Utf8ValidFrom(b, i + 3)
           [] c \in 240..244 ->
                /\ IsCont(b, i + 1) /\ IsCont(b, i + 2) /\ IsCont(b, i + 3)
                /\ (c = 240 => b[i + 1] >= 144)
                /\ (c = 244 => b[i + 1] <= 143)
                /\ Utf8ValidFrom(b, i + 4)
           [] OTHER -> FALSE

Utf8Valid(b) == Utf8ValidFrom(b, 1)

(***************************************************************************)
(* base64.b32encode(b).decode().lower().rstrip("="): the bits of b, most   *)
(* significant first and zero-padded to a multiple of five, five at a time *)
(* as characters of a-z2-7 (given as their ASCII codes).                   *)
(***************************************************************************)
BitAt(b, j) ==
    IF j >= 8 * Len(b) THEN 0
    ELSE (b[(j \div 8) + 1] \div (2 ^ (7 - (j % 8)))) % 2

B32Char(idx) == IF idx < 26 THEN 97 + idx ELSE 50 + (idx - 26)

B32Lower(b) ==
    [i \in 1..((8 * Len(b) + 4) \div 5) |->
        B32Char(16 * BitAt(b, 5 * (i - 1)) + 8 * BitAt(b, 5 * (i - 1) + 1)
                + 4 * BitAt(b, 5 * (i - 1) + 2) + 2 * BitAt(b, 5 * (i - 1) + 3)
                + BitAt(b, 5 * (i - 1) + 4))]

\* "b" + ...
CidString(raw) == <<98>> \o B32Lower(raw)

\* b"\x00\x01q\x12 " and b"\x00\x01U\x12 "
LinkPrefixDagCbor == <<0, 1, 113, 18, 32>>
LinkPrefixRaw == <<0, 1, 85, 18, 32>>

\* The only tag accepted, and the length of the bytes it tags.
CidTag == 42
LinkLen == 37

\* type(key) != str raises: a key is accepted when it is a str object.
KeyAccepted(key) == key.t = "str"

(***************************************************************************)
(* parse_dag_cbor_object at cursor pos.  Beside the object and the cursor, *)
(* the result records short: whether some head inside it was built from    *)
(* fewer bytes than it asked for, and keymts: the major types of the items *)
(* the keys of its maps (at any depth) were decoded from.                  *)
(***************************************************************************)
RECURSIVE ParseDagCborObject(_, _)
RECURSIVE ParseArrayItems(_, _, _, _, _, _)
RECURSIVE ParseMapItems(_, _, _, _, _, _)

Obj(val, pos, short, keymts) ==
    [ok |-> TRUE, val |-> val, pos |-> pos, short |-> short, keymts |-> keymts]

\* for _ in range(n): values.append(await parse_dag_cbor_object(stream))
ParseArrayItems(buf, pos, n, values, short, keymts) ==
    IF n <= 0 THEN Obj(PyList(values), pos, short, keymts)
    ELSE LET r == ParseDagCborObject(buf, pos) IN
         IF ~r.ok THEN r
         ELSE ParseArrayItems(buf, r.pos, n - 1, Append(values, r.val),
                              short \/ r.short, keymts \cup r.keymts)

\* for _ in range(n): key = ...; values[key] = ...
ParseMapItems(buf, pos, n, values, short, keymts) ==
    IF n <= 0 THEN Obj(PyDict(values), pos, short, keymts)
    ELSE LET key == ParseDagCborObject(buf, pos) IN
         IF ~key.ok THEN key
         ELSE IF ~KeyAccepted(key.val)
         THEN Err("ValueError: DAG-CBOR only accepts strings as map keys")
         ELSE LET r == ParseDagCborObject(buf, key.pos) IN
              IF ~r.ok THEN r
              ELSE ParseMapItems(buf, r.pos, n - 1,
                     [k \in DOMAIN values \cup {key.val.v} |->
                        IF k = key.val.v THEN r.val ELSE values[k]],
                     short \/ key.short \/ r.short,
                     keymts \cup key.keymts \cup r.keymts
                            \cup {buf[pos + 1] \div 32})

ParseDagCborObject(buf, pos) ==
    LET h == ParseCborHead(buf, pos) IN
    IF ~h.ok THEN h
    ELSE
    LET hshort == h.got < h.req
        info == h.val
    IN
    CASE h.mt \in {UNSIGNED_INT, NEGATIVE_INT, FLOAT} ->
            Obj(info, h.pos, hshort, {})
      [] h.mt = BYTE_STRING ->
            LET value == ReadBytes(buf, h.pos, info.v) IN
            IF Len(value) # info.v THEN Err("EOFError")
            ELSE Obj(PyBytes(value), h.pos + Len(value), hshort, {})
      [] h.mt = TEXT_STRING ->
            LET value == ReadBytes(buf, h.pos, info.v) IN
            IF Len(value) # info.v THEN Err("EOFError")
            ELSE IF ~Utf8Valid(value) THEN Err("UnicodeDecodeError")
            ELSE Obj(PyStr(value), h.pos + Len(value), hshort, {})
      [] h.mt = ARRAY ->
            ParseArrayItems(buf, h.pos, info.v, << >>, hshort, {})
      [] h.mt = MAP ->
            ParseMapItems(buf, h.pos, info.v, << >>, hshort, {})
      [] h.mt = TAG ->
            IF info.v # CidTag THEN Err("Exception: non-42 tags are not supported")
            ELSE LET c == ParseDagCborObject(buf, h.pos) IN
                 IF ~c.ok THEN c
                 ELSE IF c.val.t # "bytes" THEN Err("AssertionError")
                 ELSE IF Len(c.val.v) # LinkLen THEN Err("AssertionError")
                 ELSE IF ~(StartsWith(c.val.v, LinkPrefixDagCbor)
                           \/ StartsWith(c.val.v, LinkPrefixRaw))
                 THEN Err("AssertionError")
                 ELSE Obj(PyStr(CidString(Tail(c.val.v))), c.pos,
                          hshort \/ c.short, c.keymts)

(***************************************************************************)
(* hashlib.sha256(b).digest().  The library's function is not modelled bit *)
(* for bit: it is a fixed deterministic function from payloads to 32-byte  *)
(* digests, which is all parse_car uses of it.                             *)
(***************************************************************************)
DigestLen == 32

RECURSIVE WeightedSum(_)
WeightedSum(b) ==
    IF Len(b) = 0 THEN 0
    ELSE WeightedSum(SubSeq(b, 1, Len(b) - 1)) + Len(b) * (b[Len(b)] + 1)

Sha256(b) == [i \in 1..DigestLen |-> (WeightedSum(b) + 7 * i + 227) % 256]

\* The value of a Python int given by its bits.
RECURSIVE BitsToInt(_)
BitsToInt(b) ==
    IF Len(b) = 0 THEN 0 ELSE b[1] + 2 * BitsToInt(Tail(b))

(***************************************************************************)
(* The int parse_varint returned, as parse_car uses it: compared with      *)
(* differences of cursors and given to stream.read.  Every value above the *)
(* length of any buffer of the model acts alike there, so a value of more  *)
(* than 30 bits stands as 2^30.                                            *)
(***************************************************************************)
VarintInt(b) == IF Len(b) > 30 THEN 2 ^ 30 ELSE BitsToInt(b)

\* "version" and "roots" as UTF-8
KeyVersion == <<118, 101, 114, 115, 105, 111, 110>>
KeyRoots == <<114, 111, 111, 116, 115>>

\* b"\x01q\x12 " and the 36 bytes read for a block's CID
BlockPrefix == <<1, 113, 18, 32>>
CidRawLen == 36

\* x == 1 for a Python object x: True and 1.0 equal 1.
PyEqualsOne(x) ==
    CASE x.t = "int" -> x.v = 1
      [] x.t = "bool" -> x.v = TRUE
      [] x.t = "float" ->
            \/ (x.fmt = "e" /\ x.raw = <<60, 0>>)
            \/ (x.fmt = "f" /\ x.raw = <<63, 128, 0, 0>>)
            \/ (x.fmt = "d" /\ x.raw = <<63, 240, 0, 0, 0, 0, 0, 0>>)
      [] OTHER -> FALSE

\* len(x) of a str given by its UTF-8 bytes: its code points.
StrLen(b) == Cardinality({i \in 1..Len(b) : b[i] \notin 128..191})

\* Whether len(x) is defined, and its value.
HasLen(x) == x.t \in {"list", "str", "bytes", "dict"}

PyLen(x) ==
    CASE x.t = "list" -> Len(x.v)
      [] x.t = "bytes" -> Len(x.v)
      [] x.t = "str" -> StrLen(x.v)
      [] x.t = "dict" -> Cardinality(DOMAIN x.v)

\* A mutant of HashMatches: only the length of the digest is compared.
HashMatchesMutant(cid_raw, content_hash) == Len(cid_raw) >= Len(content_hash)

\* assert cid_raw.endswith(content_hash)
HashMatches(cid_raw, content_hash) == EndsWith(cid_raw, content_hash)

\* A mutant of BlockFramed: a block may advance the cursor past its length.
BlockFramedMutant(advanced, block_len) == advanced >= block_len

\* assert stream.tell() - block_start == block_len
BlockFramed(advanced, block_len) == advanced = block_len

(***************************************************************************)
(* parse_car's loop over the blocks, from cursor pos with the mapping      *)
(* built so far.  blocks records, for every block whose bytes were read,   *)
(* what was read and measured; it is returned on failure too, where the    *)
(* mapping is not.                                                         *)
(***************************************************************************)
CarErr(e, blocks) == [ok |-> FALSE, err |-> e, blocks |-> blocks]

RECURSIVE ParseCarBlocks(_, _, _, _, _, _, _)
ParseCarBlocks(buf, pos, len, root, header, nodesAcc, blocks) ==
    IF pos = len
    THEN [ok |-> TRUE, root |-> root, nodes |-> nodesAcc, pos |-> pos,
          header |-> header, blocks |-> blocks]
    ELSE
    LET bl == ParseVarint(buf, pos) IN
    IF ~bl.ok THEN CarErr(bl.err, blocks)
    ELSE
    LET block_len == VarintInt(bl.n)
        block_start == bl.pos
        cid_raw == ReadBytes(buf, block_start, CidRawLen)
        data_start == block_start + Len(cid_raw)
        block_data == ReadBytes(buf, data_start, block_len - CidRawLen)
        tell == data_start + Len(block_data)
        \* The rest of the iteration, given the three values computed from
        \* the bytes read: the CID, the digest and the decoded payload.
        Rest(cid, content_hash, block) ==
            LET rec == [cid_raw |-> cid_raw, cid |-> cid, payload |-> block_data,
                        declared |-> block_len, advanced |-> tell - block_start,
                        consumed |-> IF block.ok THEN block.pos ELSE -1]
                blocks2 == Append(blocks, rec)
            IN
            IF ~StartsWith(cid_raw, BlockPrefix) THEN CarErr("AssertionError", blocks)
            ELSE IF ~HashMatches(cid_raw, content_hash)
            THEN CarErr("AssertionError", blocks2)
            ELSE IF ~block.ok THEN CarErr(block.err, blocks2)
            ELSE IF block.pos # Len(block_data) THEN CarErr("AssertionError", blocks2)
            ELSE IF ~BlockFramed(tell - block_start, block_len)
            THEN CarErr("AssertionError", blocks2)
            ELSE ParseCarBlocks(buf, tell, len, root, header,
                    [c \in DOMAIN nodesAcc \cup {cid} |->
                        IF c = cid THEN block.val ELSE nodesAcc[c]],
                    blocks2)
    IN Rest(CidString(cid_raw), Sha256(block_data),
            ParseDagCborObject(block_data, 0))

(***************************************************************************)
(* parse_car(stream, length) on a stream at cursor 0.                      *)
(***************************************************************************)
ParseCar(buf, len) ==
    LET hl == ParseVarint(buf, 0) IN
    IF ~hl.ok THEN CarErr(hl.err, << >>)
    ELSE
    LET header_len == VarintInt(hl.n)
        header_start == hl.pos
        \* The rest of the function, given the decoded header.
        Rest(car_header) ==
            IF ~car_header.ok THEN CarErr(car_header.err, << >>)
            ELSE IF car_header.pos - header_start # header_len
            THEN CarErr("AssertionError", << >>)
            ELSE IF car_header.val.t # "dict" THEN CarErr("AttributeError", << >>)
            ELSE
            LET h == car_header.val.v IN
            IF ~(KeyVersion \in DOMAIN h /\ PyEqualsOne(h[KeyVersion]))
            THEN CarErr("AssertionError", << >>)
            ELSE
            LET roots == IF KeyRoots \in DOMAIN h THEN h[KeyRoots]
                         ELSE PyList(<< >>) IN
            IF ~HasLen(roots) THEN CarErr("TypeError", << >>)
            ELSE IF PyLen(roots) # 1 THEN CarErr("AssertionError", << >>)
            ELSE IF roots.t = "dict" THEN CarErr("KeyError", << >>)
            ELSE
            LET root == CASE roots.t = "list" -> roots.v[1]
                          [] roots.t = "str" -> roots
                          [] roots.t = "bytes" -> PyInt(roots.v[1])
            IN ParseCarBlocks(buf, car_header.pos, len, root,
                              [declared |-> header_len,
                               consumed |-> car_header.pos - header_start,
                               val |-> car_header.val],
                              << >>, << >>)
    IN Rest(ParseDagCborObject(buf, header_start))

(***************************************************************************)
(* The inputs.  Buffers are built with the encoders below, which write     *)
(* what the decoders read: the LEB128 encoding of an integer and the       *)
(* definite-length heads of DAG-CBOR.                                      *)
(***************************************************************************)
RECURSIVE IntToBits(_)
IntToBits(i) == IF i = 0 THEN << >> ELSE <<i % 2>> \o IntToBits(i \div 2)

\* The varint of an integer given by its bits: seven bits a byte, least
\* significant first, the high bit set on every byte but the last.
RECURSIVE EncodeVarint(_)
EncodeVarint(bits) ==
    IF Len(bits) <= 7 THEN <<BitsToInt(bits)>>
    ELSE <<128 + BitsToInt(SubSeq(bits, 1, 7))>>
         \o EncodeVarint(SubSeq(bits, 8, Len(bits)))

EncodeVarintInt(i) == EncodeVarint(IntToBits(i))

\* Integers below 2^MaxBits are decoded; all of 0..MaxSmallN are, and for
\* every greater bit length three patterns.
MaxBits == 35
MaxSmallN == 300

Ones(l) == [i \in 1..l |-> 1]
PowerOfTwo(l) == [i \in 1..l |-> IF i = l THEN 1 ELSE 0]
Alternating(l) == [i \in 1..l |-> IF (l - i) % 2 = 0 THEN 1 ELSE 0]

VarintNs ==
    {IntToBits(i) : i \in 0..MaxSmallN}
    \cup {Ones(l) : l \in 1..MaxBits}
    \cup {PowerOfTwo(l) : l \in 1..MaxBits}
    \cup {Alternating(l) : l \in 1..MaxBits}

\* What follows the varint in the buffer.
VarintTails == {<< >>, <<129, 1>>, <<0>>}

\* Buffers that are no encoding of the above: truncated and padded ones.
VarintOddInputs == {<< >>, <<128>>, <<255, 255>>, <<128, 0>>, <<129, 128, 0, 5>>}

VarintTable == [n \in VarintNs |-> EncodeVarint(n)]

VarintInputs ==
    {VarintTable[n] \o t : n \in VarintNs, t \in VarintTails} \cup VarintOddInputs

\* Every first byte, followed by 0, 1, 2, 3, 4, 8 and 9 bytes.
HeadTails ==
    {<< >>, <<42>>, <<60, 0>>, <<0, 1, 2>>, <<63, 128, 0, 0>>,
     <<0, 0, 0, 0, 0, 0, 1, 2>>, <<0, 0, 0, 0, 0, 0, 1, 2, 255>>}

HeadInputs == {<<b>> \o t : b \in 0..255, t \in HeadTails}

\* A text string and a byte string of fewer than 24 bytes.
CborText(b) == <<96 + Len(b)>> \o b
CborBytes(b) == <<64 + Len(b)>> \o b

\* Two block payloads: {"e": []} and 0.
PayloadA == <<161, 97, 101, 128>>
PayloadB == <<0>>

\* The 36 bytes of a block's CID and a link to it (tag 42, 37 bytes).
CidRawOf(payload) == BlockPrefix \o Sha256(payload)
LinkTo(payload) == <<216, 42, 88, 37, 0>> \o CidRawOf(payload)

ScalarItems ==
    {<<0>>, <<23>>, <<24, 42>>, <<25, 1, 0>>, <<32>>, <<56, 99>>,
     <<244>>, <<245>>, <<246>>, <<249, 60, 0>>,
     CborBytes(<<97>>), CborBytes(<< >>),
     CborText(<<97>>), CborText(<<195, 169>>), CborText(<< >>),
     CborText(<<255>>)}

LinkItems ==
    {LinkTo(PayloadA),
     <<216, 42, 88, 37, 0, 1, 85, 18, 32>> \o Sha256(PayloadA),
     <<216, 42, 88, 37, 1, 1, 113, 18, 32>> \o Sha256(PayloadA),
     <<216, 42, 88, 36>> \o CidRawOf(PayloadA),
     <<216, 42, 120, 37, 0>> \o CidRawOf(PayloadA),
     <<216, 43, 0>>, <<202, 0>>}

FlatItems == ScalarItems \cup LinkItems \cup {<<128>>, <<160>>, <<129, 0>>}

MapValues == {<<0>>, CborText(<<98>>), <<128>>, LinkTo(PayloadB)}

OneEntryMaps == {<<161>> \o k \o v : k \in FlatItems, v \in MapValues}

NestedItems ==
    {<<161>> \o CborText(<<97>>) \o <<161>> \o k \o <<0>> : k \in FlatItems}
    \cup {<<129, 161>> \o k \o <<0>> : k \in FlatItems}
    \cup {<<130>> \o k \o k : k \in FlatItems}

TwoEntryMaps ==
    {<<162>> \o CborText(<<97>>) \o <<1>> \o k \o <<2>> : k \in FlatItems}

\* Heads cut short by the end of the buffer, and counts with no items.
ShortItems ==
    {<<24>>, <<25, 1>>, <<26, 0, 1>>, <<27, 0, 0, 0, 1>>, <<57>>, <<58, 0, 0, 2>>,
     <<88>>, <<89, 0>>, <<120>>, <<153>>, <<185>>, <<185, 0>>, <<250, 60, 0>>,
     <<251, 63, 128, 0, 0>>, <<249, 60>>, <<216>>, <<129, 25, 1>>,
     <<161, 97, 97, 25, 1>>, <<66, 97>>, <<98, 97>>, <<130, 0>>, <<161, 97, 97>>,
     <<159>>, <<191>>, <<28>>, <<255>>}

Prefixes(b) == {SubSeq(b, 1, i) : i \in 0..Len(b)}

ObjInputs ==
    FlatItems \cup OneEntryMaps \cup NestedItems \cup TwoEntryMaps \cup ShortItems
    \cup Prefixes(<<161>> \o CborText(<<97>>) \o LinkTo(PayloadA))

(***************************************************************************)
(* CAR files: a varint-framed header, then varint-framed blocks.           *)
(***************************************************************************)
HeaderMap(rootsItem, versionItem) ==
    <<162>> \o CborText(KeyRoots) \o rootsItem \o CborText(KeyVersion) \o versionItem

OneRoot == <<129>> \o LinkTo(PayloadA)

GoodHeader == HeaderMap(OneRoot, <<1>>)

\* Headers with another version, other roots, or no map at all.
HeaderBodies ==
    {GoodHeader,
     HeaderMap(OneRoot, <<245>>), HeaderMap(OneRoot, <<244>>),
     HeaderMap(OneRoot, <<249, 60, 0>>), HeaderMap(OneRoot, <<250, 63, 128, 0, 0>>),
     HeaderMap(OneRoot, <<2>>), HeaderMap(OneRoot, <<0>>),
     HeaderMap(OneRoot, CborText(<<49>>)), HeaderMap(OneRoot, <<246>>),
     HeaderMap(OneRoot, <<24, 1>>),
     <<161>> \o CborText(KeyRoots) \o OneRoot,
     <<161>> \o CborText(KeyVersion) \o <<1>>,
     HeaderMap(<<128>>, <<1>>),
     HeaderMap(<<130>> \o LinkTo(PayloadA) \o LinkTo(PayloadB), <<1>>),
     HeaderMap(<<129, 0>>, <<1>>),
     HeaderMap(CborText(<<97>>), <<1>>), HeaderMap(CborText(<<97, 98>>), <<1>>),
     HeaderMap(CborText(<<195, 169>>), <<1>>),
     HeaderMap(CborBytes(<<7>>), <<1>>), HeaderMap(CborBytes(<< >>), <<1>>),
     HeaderMap(<<161>> \o CborText(<<97>>) \o <<0>>, <<1>>),
     HeaderMap(LinkTo(PayloadA), <<1>>),
     HeaderMap(<<1>>, <<1>>), HeaderMap(<<246>>, <<1>>), HeaderMap(<<245>>, <<1>>),
     <<160>>, <<1>>, <<129, 0>>, CborText(<<97>>), <<246>>}

Framed(declared, body) == EncodeVarintInt(declared) \o body

Block(declared, cid_raw, payload) == EncodeVarintInt(declared) \o cid_raw \o payload

GoodBlock(payload) == Block(CidRawLen + Len(payload), CidRawOf(payload), payload)

\* One block: well formed, or wrong in its digest, prefix, payload or length.
BlockVariants ==
    {GoodBlock(PayloadA), GoodBlock(PayloadB),
     Block(CidRawLen + Len(PayloadA), CidRawOf(PayloadB), PayloadA),
     Block(CidRawLen + Len(PayloadA), <<1, 85, 18, 32>> \o Sha256(PayloadA), PayloadA),
     GoodBlock(PayloadA \o <<0>>), GoodBlock(<<255>>), GoodBlock(<<25, 1>>),
     GoodBlock(<< >>),
     Block(CidRawLen + Len(PayloadA) + 1, CidRawOf(PayloadA), PayloadA),
     Block(CidRawLen + Len(PayloadA) - 1, CidRawOf(PayloadA), PayloadA),
     Block(CidRawLen - 1, CidRawOf(PayloadA), PayloadA),
     Block(0, CidRawOf(PayloadA), PayloadA),
     EncodeVarint(PowerOfTwo(33)) \o CidRawOf(PayloadA) \o PayloadA}

\* At most MaxBlocks blocks follow the header.
MaxBlocks == 2

RECURSIVE BlockSeqs(_)
BlockSeqs(n) ==
    IF n = 0 THEN {<< >>}
    ELSE LET shorter == BlockSeqs(n - 1) IN
         shorter \cup {s \o b : s \in shorter, b \in BlockVariants}

GoodCar == Framed(Len(GoodHeader), GoodHeader) \o GoodBlock(PayloadA)

CarInputs ==
    {Framed(Len(GoodHeader), GoodHeader) \o bs : bs \in BlockSeqs(MaxBlocks)}
    \cup {Framed(Len(h), h) \o bs : h \in HeaderBodies,
                                   bs \in {<< >>, GoodBlock(PayloadA)}}
    \cup {Framed(Len(GoodHeader) + d, GoodHeader) \o GoodBlock(PayloadA) : d \in {-1, 1}}
    \cup Prefixes(GoodCar)

\* The total length parse_car is given: the buffer's, one more, or the
\* offset at which the header or the first block of GoodCar ends.
CarLengths(buf) ==
    {Len(buf), Len(buf) + 1, Len(Framed(Len(GoodHeader), GoodHeader)), Len(GoodCar)}

(***************************************************************************)
(* The decoders as a state machine: a buffer is chosen, then one decoder   *)
(* runs on it from cursor 0 and its result is kept in out.                 *)
(***************************************************************************)
NoMst == /\ nodes = << >>
         /\ node = << >>
         /\ stack = << >>
         /\ last = << >>

InitVarint ==
    /\ stream \in VarintInputs
    /\ length = Len(stream)
    /\ pc = "start"
    /\ out = NoOut
    /\ NoMst

InitHead ==
    /\ stream \in HeadInputs
    /\ length = Len(stream)
    /\ pc = "start"
    /\ out = NoOut
    /\ NoMst

InitObj ==
    /\ stream \in ObjInputs
    /\ length = Len(stream)
    /\ pc = "start"
    /\ out = NoOut
    /\ NoMst

InitCar ==
    /\ stream \in CarInputs
    /\ length \in CarLengths(stream)
    /\ pc = "start"
    /\ out = NoOut
    /\ NoMst

DoParseVarint ==
    /\ pc = "start"
    /\ pc' = "parse_varint"
    /\ out' = ParseVarint(stream, 0)
    /\ UNCHANGED <<stream, length, nodes, node, stack, last>>

DoParseCborHead ==
    /\ pc = "start"
    /\ pc' = "parse_cbor_head"
    /\ out' = ParseCborHead(stream, 0)
    /\ UNCHANGED <<stream, length, nodes, node, stack, last>>

DoParseDagCborObject ==
    /\ pc = "start"
    /\ pc' = "parse_dag_cbor_object"
    /\ out' = ParseDagCborObject(stream, 0)
    /\ UNCHANGED <<stream, length, nodes, node, stack, last>>

DoParseCar ==
    /\ pc = "start"
    /\ pc' = "parse_car"
    /\ out' = ParseCar(stream, length)
    /\ UNCHANGED <<stream, length, nodes, node, stack, last>>

SpecVarint == InitVarint /\ [][DoParseVarint]_vars

SpecHead == InitHead /\ [][DoParseCborHead]_vars

SpecObj == InitObj /\ [][DoParseDagCborObject]_vars

SpecCar == InitCar /\ [][DoParseCar]_vars

(***************************************************************************)
(* The properties of the decoders.                                         *)
(***************************************************************************)
CeilDiv(a, b) == (a + b - 1) \div b

\* The cursor stopped on the first byte whose high bit is clear.
StoppedAtFirstClearByte ==
    /\ out.pos \in 1..Len(stream)
    /\ stream[out.pos] < 128
    /\ \A i \in 1..(out.pos - 1) : stream[i] >= 128

\* C6 as stated: parse_varint on the encoding of n, whatever follows it,
\* returns n and consumes exactly ceil(bitlength(n) / 7) bytes, stopping at
\* the first byte whose high bit is clear.
Varint_RoundTrip_CeilBytes ==
    \A n \in VarintNs : \A t \in VarintTails :
        (pc = "parse_varint" /\ stream = VarintTable[n] \o t) =>
            /\ out.ok
            /\ out.n = n
            /\ out.pos = CeilDiv(Len(n), 7)
            /\ StoppedAtFirstClearByte

\* C6 amended: the same, with one byte consumed for n = 0, that is
\* max(1, ceil(bitlength(n) / 7)) bytes.
Varint_RoundTrip ==
    \A n \in VarintNs : \A t \in VarintTails :
        (pc = "parse_varint" /\ stream = VarintTable[n] \o t) =>
            /\ out.ok
            /\ out.n = n
            /\ out.pos = Max(1, CeilDiv(Len(n), 7))
            /\ StoppedAtFirstClearByte

\* A five-byte varint was decoded and the bytes after it were left unread.
Varint_Witness ==
    /\ pc = "parse_varint"
    /\ out.ok
    /\ Len(out.n) = 35
    /\ out.pos = 5
    /\ Len(stream) = 7

\* What C5 says parse_cbor_head returns for the n bytes b that follow a
\* first byte of major type mt.
HeadValueOf(mt, b) ==
    CASE mt = NEGATIVE_INT -> PyInt(-1 - FromBytesBig(b))
      [] mt = FLOAT /\ Len(b) = 2 -> PyFloat("e", b)
      [] mt = FLOAT /\ Len(b) = 4 -> PyFloat("f", b)
      [] mt = FLOAT /\ Len(b) = 8 -> PyFloat("d", b)
      [] OTHER -> PyInt(FromBytesBig(b))

\* C5 for the buffer in stream, with need the 1, 2, 4 or 8 bytes that the
\* additional info asks for.
HeadTableHolds ==
    LET first == stream[1]
        mt == first \div 32
        info == first % 32
        need == 2 ^ (info - 24)
    IN
    /\ (out.ok => out.mt = mt)
    /\ (info < 24 /\ mt # FLOAT) =>
            (out.ok /\ out.val = PyInt(info) /\ out.pos = 1)
    /\ (info < 24 /\ mt = FLOAT) =>
            CASE info = 20 -> out.ok /\ out.val = PyBool(FALSE) /\ out.pos = 1
              [] info = 21 -> out.ok /\ out.val = PyBool(TRUE) /\ out.pos = 1
              [] info = 22 -> out.ok /\ out.val = PyNone /\ out.pos = 1
              [] OTHER -> ~out.ok
    /\ (info = 24 /\ mt = FLOAT) => ~out.ok
    /\ (info \in 24..27 /\ out.ok) =>
            /\ Len(stream) >= 1 + need
            /\ out.val = HeadValueOf(mt, SubSeq(stream, 2, 1 + need))
            /\ out.pos = 1 + need
    /\ (info \in 24..27 /\ ~(info = 24 /\ mt = FLOAT) /\ Len(stream) >= 1 + need)
            => out.ok
    /\ info = 31 =>
            (~out.ok /\ out.err = "Exception: indefinite lengths not supported by this implementation")
    /\ info \in 28..30 => (~out.ok /\ out.err = "Exception: not well-formed")

\* C5 as stated: for every first byte, the major type is its top 3 bits
\* and the value is fixed by its low 5 bits: the info itself under 24
\* (false, true, null for 20, 21, 22 of float/simple, which fails otherwise),
\* the 1, 2, 4 or 8 following bytes big-endian for 24..27 (-1 - value for a
\* negative int, a half, single or double float for float/simple, whose
\* 1-byte form fails), a failure for 28..31; the cursor ends at 1 plus the
\* bytes the info asks for.
Head_Table == pc = "parse_cbor_head" => HeadTableHolds

\* The same on the buffers that hold every byte the first byte asks for:
\* there the table holds.
Head_Table_CompleteHeads ==
    (pc = "parse_cbor_head"
        /\ (stream[1] % 32 \in 24..27 => Len(stream) >= 1 + 2 ^ ((stream[1] % 32) - 24)))
    => HeadTableHolds

\* C4 as stated: no decoded value is built from a read that gave fewer
\* bytes than were asked for; such a read ends in an error.
ShortRead_IsFatal == (pc = "parse_dag_cbor_object" /\ out.ok) => ~out.short

\* C7 as stated: in a decoded object, every key of every map was decoded
\* from a text string item; a key item of any other kind (a CID link
\* included) fails the decode.
MapKeys_AreTextStrings ==
    (pc = "parse_dag_cbor_object" /\ out.ok) => out.keymts \subseteq {TEXT_STRING}

\* The header parse_car reads from stream, decoded apart from parse_car.
HeaderOf(buf) ==
    LET hl == ParseVarint(buf, 0) IN
    IF hl.ok THEN ParseDagCborObject(buf, hl.pos) ELSE hl

\* A map whose version is the integer 1 and whose roots is a sequence (a
\* list) of exactly one element.
HeaderShapeOk(h) ==
    /\ h.t = "dict"
    /\ KeyVersion \in DOMAIN h.v
    /\ h.v[KeyVersion].t = "int"
    /\ h.v[KeyVersion].v = 1
    /\ KeyRoots \in DOMAIN h.v
    /\ h.v[KeyRoots].t = "list"
    /\ Len(h.v[KeyRoots].v) = 1

\* C3 as stated: parse_car fails, with no block read, on every header that
\* is not a map with the integer 1 as version and a one-element sequence
\* as roots.
Car_HeaderShape_Rejected ==
    pc = "parse_car" =>
        LET h == HeaderOf(stream) IN
        (h.ok /\ ~HeaderShapeOk(h.val)) => (~out.ok /\ out.blocks = << >>)

\* The payload of a block that was read hashes to the last 32 bytes of the
\* 36 bytes of its CID.
DigestOk(b) ==
    /\ Len(b.cid_raw) = CidRawLen
    /\ SubSeq(b.cid_raw, CidRawLen - DigestLen + 1, CidRawLen) = Sha256(b.payload)

\* C1: when a block that was read has a payload that does not hash to the
\* digest in its CID, parse_car fails and returns no mapping; and every
\* entry of a mapping it returns is the decoding of a payload that hashes
\* to the last 32 bytes of the entry's CID.
Car_HashVerified ==
    pc = "parse_car" =>
        /\ (\E i \in DOMAIN out.blocks : ~DigestOk(out.blocks[i]))
                => (~out.ok /\ "nodes" \notin DOMAIN out)
        /\ out.ok =>
            \A cid \in DOMAIN out.nodes :
                \E i \in DOMAIN out.blocks :
                    LET b == out.blocks[i] IN
                    /\ b.cid = cid
                    /\ cid = CidString(b.cid_raw)
                    /\ DigestOk(b)
                    /\ ParseDagCborObject(b.payload, 0).ok
                    /\ ParseDagCborObject(b.payload, 0).val = out.nodes[cid]

\* A second block with a wrong digest failed the parse after a first block
\* had been accepted.
Car_HashVerified_Witness ==
    /\ pc = "parse_car"
    /\ ~out.ok
    /\ Len(out.blocks) = 2
    /\ DigestOk(out.blocks[1])
    /\ ~DigestOk(out.blocks[2])

\* C2: parse_car returns only when the header took exactly its declared
\* length, every block advanced the cursor by exactly its declared length
\* (36 bytes of CID and a payload that decodes to one value with nothing
\* left over), and the cursor is at the total length given.
Car_Framing ==
    (pc = "parse_car" /\ out.ok) =>
        /\ out.header.consumed = out.header.declared
        /\ out.pos = length
        /\ \A i \in DOMAIN out.blocks :
            LET b == out.blocks[i] IN
            /\ b.advanced = b.declared
            /\ b.declared >= CidRawLen
            /\ Len(b.cid_raw) = CidRawLen
            /\ Len(b.payload) = b.declared - CidRawLen
            /\ b.consumed = Len(b.payload)

\* Two blocks were read and the parse returned.
Car_Framing_Witness ==
    /\ pc = "parse_car"
    /\ out.ok
    /\ Len(out.blocks) = 2
    /\ Cardinality(DOMAIN out.nodes) = 2

(***************************************************************************)
(* enumerate_mst_records(nodes, node).  The block mapping is a function    *)
(* from CIDs to MST nodes; a node is [l, e] and an entry of e is           *)
(* [p, k, v, t], where l and t are a CID or "none" (the key is absent or   *)
(* null: node.get gives None, which is in no mapping), p is an int, k the  *)
(* key suffix bytes and v the value's CID.                                 *)
(*                                                                         *)
(* The recursion is run step by step on an explicit stack of activations.  *)
(* An activation is [node, at, i, prev_key, records]: at is "l" before the *)
(* left link is looked at, "lret" and "tret" while the activation awaits   *)
(* the return of the call it made for l or for entry i's t, and "e" when   *)
(* entry i is the next to process (or, past the last entry, to return).    *)
(***************************************************************************)
NewFrame(n) ==
    [node |-> n, at |-> "l", i |-> 1, prev_key |-> << >>, records |-> << >>]

\* c in nodes
LinkPresent(c) == c \in DOMAIN nodes

\* prev_key[: p], with Python's reading of a negative p
PyPrefix(prev_key, p) ==
    IF p >= 0 THEN SubSeq(prev_key, 1, Min(p, Len(prev_key)))
    ELSE SubSeq(prev_key, 1, Max(0, Len(prev_key) + p))

\* assert entry["p"] <= len(prev_key)
PrefixOk(p, prev_key) == p <= Len(prev_key)

\* records[key] = v
Put(records, key, v) ==
    [k \in DOMAIN records \cup {key} |-> IF k = key THEN v ELSE records[k]]

\* A mutant of Merge: on a key of both, the value already recorded is kept.
MergeMutant(records, sub) ==
    [k \in DOMAIN records \cup DOMAIN sub |->
        IF k \in DOMAIN records THEN records[k] ELSE sub[k]]

\* records |= sub
Merge(records, sub) ==
    [k \in DOMAIN records \cup DOMAIN sub |->
        IF k \in DOMAIN sub THEN sub[k] ELSE records[k]]

\* A mutant of Resume: after the subtree of an entry, the same entry is next.
ResumeMutant(f, ret) ==
    [f EXCEPT !.at = "e", !.records = Merge(f.records, ret)]

\* The caller's activation once the call it awaited has returned ret: after
\* the left subtree the entries start (prev_key = b""), after an entry's
\* right subtree the next entry follows.
Resume(f, ret) ==
    IF f.at = "lret"
    THEN [f EXCEPT !.at = "e", !.records = Merge(f.records, ret)]
    ELSE [f EXCEPT !.at = "e", !.i = f.i + 1, !.records = Merge(f.records, ret)]

\* The interpreter's recursion limit (sys.getrecursionlimit(), 1000 by
\* default), scaled down: a call made with MaxDepth activations on the
\* stack raises RecursionError.  It is more than the CIDs of the mapping,
\* so a call at this depth is made by a node inside its own activation.
MaxDepth == 3

top == stack[Len(stack)]

SetTop(f) == [stack EXCEPT ![Len(stack)] = f]

Running == pc = "run" /\ Len(stack) > 0

AtEntry == Running /\ top.at = "e" /\ top.i <= Len(top.node.e)

entry == top.node.e[top.i]

key == PyPrefix(top.prev_key, entry.p) \o entry.k

Processed(accepted) ==
    [node |-> top.node, i |-> top.i, p |-> entry.p, k |-> entry.k,
     prev |-> top.prev_key, key |-> key, accepted |-> accepted]

\* if node.get("l") in nodes: records |= await enumerate_mst_records(...)
DescendLeft ==
    /\ Running /\ top.at = "l"
    /\ LinkPresent(top.node.l)
    /\ Len(stack) < MaxDepth
    /\ stack' = Append(SetTop([top EXCEPT !.at = "lret"]),
                       NewFrame(nodes[top.node.l]))
    /\ last' = << >>
    /\ UNCHANGED <<stream, length, pc, out, nodes, node>>

\* The left link is absent from the mapping: prev_key = b""
SkipLeft ==
    /\ Running /\ top.at = "l"
    /\ ~LinkPresent(top.node.l)
    /\ stack' = SetTop([top EXCEPT !.at = "e"])
    /\ last' = << >>
    /\ UNCHANGED <<stream, length, pc, out, nodes, node>>

\* The assertion on entry["p"] fails: the exception leaves every activation.
EntryFails ==
    /\ AtEntry
    /\ ~PrefixOk(entry.p, top.prev_key)
    /\ pc' = "error"
    /\ out' = Err("AssertionError")
    /\ stack' = << >>
    /\ last' = Processed(FALSE)
    /\ UNCHANGED <<stream, length, nodes, node>>

\* An entry whose t is absent from the mapping.
EntryLeaf ==
    /\ AtEntry
    /\ PrefixOk(entry.p, top.prev_key)
    /\ ~LinkPresent(entry.t)
    /\ stack' = SetTop([top EXCEPT !.prev_key = key,
                                   !.records = Put(top.records, key, entry.v),
                                   !.i = top.i + 1])
    /\ last' = Processed(TRUE)
    /\ UNCHANGED <<stream, length, pc, out, nodes, node>>

\* An entry whose t is in the mapping: the entry is recorded, then the
\* subtree is enumerated.
EntryDescend ==
    /\ AtEntry
    /\ PrefixOk(entry.p, top.prev_key)
    /\ LinkPresent(entry.t)
    /\ Len(stack) < MaxDepth
    /\ stack' = Append(SetTop([top EXCEPT !.prev_key = key,
                                          !.records = Put(top.records, key, entry.v),
                                          !.at = "tret"]),
                       NewFrame(nodes[entry.t]))
    /\ last' = Processed(TRUE)
    /\ UNCHANGED <<stream, length, pc, out, nodes, node>>

\* A recursive call at the interpreter's recursion limit: RecursionError
\* is raised and, caught nowhere, ends every activation.
RecursionLimit ==
    /\ Running
    /\ Len(stack) = MaxDepth
    /\ \/ top.at = "l" /\ LinkPresent(top.node.l)
       \/ AtEntry /\ PrefixOk(entry.p, top.prev_key) /\ LinkPresent(entry.t)
    /\ pc' = "error"
    /\ out' = Err("RecursionError")
    /\ stack' = << >>
    /\ last' = << >>
    /\ UNCHANGED <<stream, length, nodes, node>>

\* return records, to the activation that awaits it
ReturnToCaller ==
    /\ Running /\ top.at = "e" /\ top.i > Len(top.node.e)
    /\ Len(stack) > 1
    /\ stack' = Append(SubSeq(stack, 1, Len(stack) - 2),
                       Resume(stack[Len(stack) - 1], top.records))
    /\ last' = << >>
    /\ UNCHANGED <<stream, length, pc, out, nodes, node>>

\* return records, from the outermost call
ReturnRecords ==
    /\ Running /\ top.at = "e" /\ top.i > Len(top.node.e)
    /\ Len(stack) = 1
    /\ pc' = "done"
    /\ out' = [ok |-> TRUE, records |-> top.records]
    /\ stack' = << >>
    /\ last' = << >>
    /\ UNCHANGED <<stream, length, nodes, node>>

NextMst ==
    \/ DescendLeft
    \/ SkipLeft
    \/ EntryFails
    \/ EntryLeaf
    \/ EntryDescend
    \/ RecursionLimit
    \/ ReturnToCaller
    \/ ReturnRecords

(***************************************************************************)
(* The mappings enumerated: two CIDs, "A" and "B", each bound to a node,   *)
(* and a CID "X" that is bound to none.  Every entry has a value of its    *)
(* own, so that the value under a key tells which entry wrote it last.     *)
(***************************************************************************)
KeyB == <<98>>
KeyBo == <<98, 111>>

MkEntry(p, k, v, t) == [p |-> p, k |-> k, v |-> v, t |-> t]

EntriesOfA ==
    LET first == {MkEntry(p, k, "a1", t) :
                    p \in {-1, 0, 1}, k \in {KeyB, KeyBo}, t \in {"none", "B", "X"}}
                 \cup {MkEntry(0, KeyBo, "a1", "A")}
        second == {MkEntry(p, KeyB, "a2", t) :
                    p \in {-1, 0, 1, 2, 3}, t \in {"none", "B"}}
    IN  {<< >>} \cup {<<e1>> : e1 \in first}
        \cup {<<e1, e2>> : e1 \in first, e2 \in second}

EntriesOfB ==
    {<< >>} \cup {<<MkEntry(p, k, "b1", t)>> :
                    p \in {0, 1}, k \in {KeyB, KeyBo}, t \in {"none", "B"}}

NodesOfA == {[l |-> l, e |-> e] : l \in {"none", "A", "B", "X"}, e \in EntriesOfA}

NodesOfB == {[l |-> l, e |-> e] : l \in {"none", "A"}, e \in EntriesOfB}

InitMst ==
    /\ nodes \in {[c \in {"A", "B"} |-> IF c = "A" THEN a ELSE b] :
                    a \in NodesOfA, b \in NodesOfB}
    /\ node \in {nodes[c] : c \in DOMAIN nodes}
    /\ stack = <<NewFrame(node)>>
    /\ last = << >>
    /\ pc = "run"
    /\ out = NoOut
    /\ stream = << >>
    /\ length = 0

SpecMst == InitMst /\ [][NextMst]_vars

\* The interpreter runs the coroutine to its end: a step that can be taken
\* is taken.
LiveMst == InitMst /\ [][NextMst]_vars /\ WF_vars(NextMst)

(***************************************************************************)
(* The properties of the enumerator.                                       *)
(***************************************************************************)
\* The key of entry i of node n by the rule of C8: the first p bytes of the
\* key of entry i - 1 (the empty key before the first entry), then k.
RECURSIVE KeyByRule(_, _)
KeyByRule(n, i) ==
    IF i = 0 THEN << >>
    ELSE SubSeq(KeyByRule(n, i - 1), 1, n.e[i].p) \o n.e[i].k

\* What C8 says of the entry that the last step processed.
PrefixRuleHolds ==
    /\ last.prev = KeyByRule(last.node, last.i - 1)
    /\ IF last.p > Len(last.prev)
       THEN ~last.accepted
       ELSE /\ last.accepted
            /\ last.key = SubSeq(last.prev, 1, last.p) \o last.k
    /\ last.accepted => last.p \in 0..Len(last.prev)

\* C8 as stated: for every entry of a node taken in order, either p exceeds
\* the length of the previous key of that node and the enumeration fails,
\* or the key recorded is the first p bytes of that previous key followed
\* by k; the previous key is the node's own (the empty key before the first
\* entry, whatever a t subtree enumerated in between), and no p outside
\* 0..len(previous key) is accepted.
Mst_PrefixRule == last # << >> => PrefixRuleHolds

\* The same for the nodes whose entries, up to the one processed, have no
\* negative p: there the rule holds.
Mst_PrefixRule_NonNegative ==
    (last # << >> /\ \A j \in 1..last.i : last.node.e[j].p >= 0) => PrefixRuleHolds

\* The writes of enumerate_mst_records(nodes, n) in left-to-right
\* depth-first order: the l subtree, then each entry followed by its t
\* subtree.  WritesFrom is the part from entry i on, prev the key before it.
RECURSIVE Writes(_)
RECURSIVE WritesFrom(_, _, _)
Writes(n) ==
    (IF n.l \in DOMAIN nodes THEN Writes(nodes[n.l]) ELSE << >>)
    \o WritesFrom(n, 1, << >>)

WritesFrom(n, i, prev) ==
    IF i > Len(n.e) THEN << >>
    ELSE LET e == n.e[i]
             k == PyPrefix(prev, e.p) \o e.k
         IN  <<[key |-> k, v |-> e.v]>>
             \o (IF e.t \in DOMAIN nodes THEN Writes(nodes[e.t]) ELSE << >>)
             \o WritesFrom(n, i + 1, k)

\* The mapping a sequence of writes leaves: under each key, the last value.
FoldWrites(ws) ==
    [k \in {ws[j].key : j \in DOMAIN ws} |->
        ws[CHOOSE j \in DOMAIN ws :
                /\ ws[j].key = k
                /\ \A j2 \in DOMAIN ws : j2 > j => ws[j2].key # k].v]

\* The links of a node to CIDs of the mapping, and the CIDs reached from a
\* set of CIDs through such links.
LinksOf(n) == ({n.l} \cup {n.e[i].t : i \in DOMAIN n.e}) \cap DOMAIN nodes

RECURSIVE Closure(_)
Closure(cs) ==
    LET more == cs \cup UNION {LinksOf(nodes[c]) : c \in cs} IN
    IF more = cs THEN cs ELSE Closure(more)

ReachableNodes == {node} \cup {nodes[c] : c \in Closure(LinksOf(node))}

\* The keys the entries of node n reconstruct, one after the other.
RECURSIVE KeyAt(_, _)
KeyAt(n, i) ==
    IF i = 0 THEN << >> ELSE PyPrefix(KeyAt(n, i - 1), n.e[i].p) \o n.e[i].k

KeysOf(n) == {KeyAt(n, i) : i \in DOMAIN n.e}

\* C9: the records returned are what the writes in left-to-right
\* depth-first order leave (the value written last under each key), and
\* their keys are the keys of the nodes reached through links to CIDs of
\* the mapping.
Mst_DepthFirstOrder ==
    pc = "done" =>
        /\ out.records = FoldWrites(Writes(node))
        /\ DOMAIN out.records = UNION {KeysOf(n) : n \in ReachableNodes}

\* An enumeration returned after a left subtree, an entry whose t is bound
\* to no node, an entry with a right subtree, and a key written twice.
Mst_DepthFirstOrder_Witness ==
    /\ pc = "done"
    /\ node.l = "B"
    /\ Len(node.e) = 2
    /\ node.e[1].t = "X"
    /\ node.e[2].t = "B"
    /\ Len(nodes["B"].e) = 1
    /\ Len(Writes(node)) > Cardinality(DOMAIN out.records)

\* No node reached from the starting node is reached from itself.
Acyclic == \A c \in Closure(LinksOf(node)) : c \notin Closure(LinksOf(nodes[c]))

Terminated == pc \in {"done", "error"}

Mst_RecursionError_OnlyIfCyclic ==
    (pc = "error" /\ out = Err("RecursionError")) => ~Acyclic

\* With no node reached from itself the enumeration ends below the
\* recursion limit.
Mst_Terminates_Acyclic ==
    Acyclic => <>(pc = "done" \/ (pc = "error" /\ out = Err("AssertionError")))
=============================================================================
